---- MODULE Spec2Model ----
(***************************************************************************)
(* PAMI/extras/dbStats/TransactionalDatabase.py                            *)
(*                                                                         *)
(* A TransactionalDatabase object is built from a source (a local text     *)
(* file or a pandas DataFrame) and a separator; run() loads it into an     *)
(* insertion-ordered dict tid -> transaction, and the get* / print / plot  *)
(* methods compute statistics from it.                                     *)
(*                                                                         *)
(* Strings are sequences of characters.  A Python dict is a sequence of    *)
(* [k, v] records in insertion order.  A float result is kept exact, as a  *)
(* pair <<numerator, denominator>>.                                        *)
(***************************************************************************)
EXTENDS Integers, Sequences, FiniteSets, TLC

VARIABLES inputFile, sep, database, lengthList, itemFrequencies,
          pc, ret, stdout, plotted

vars == <<inputFile, sep, database, lengthList, itemFrequencies,
          pc, ret, stdout, plotted>>

----------------------------------------------------------------------------
(* Bounds of the inputs *)

MaxLines == 2
MaxFields == 2
MaxRows == 2
MaxTxnLen == 2

Fields == {<<>>, <<"a">>, <<"b", "SP">>}
Seps == {"TAB"}
Whitespace == {"SP", "TAB", "NL"}
Items == {<<"a">>, <<"b">>}
ColumnSets == {{"tid", "Transactions"}, {"tid", "Patterns"}, {"tid"},
               {"Transactions"}, {}}

SeqsUpTo(S, n) == UNION {[1..k -> S] : k \in 0..n}

SeqsFromTo(S, m, n) == UNION {[1..k -> S] : k \in m..n}

----------------------------------------------------------------------------
(* Python built-ins *)

RECURSIVE Sum(_)
Sum(s) == IF s = <<>> THEN 0 ELSE s[1] + Sum(Tail(s))

RECURSIVE SumSq(_)
SumSq(s) == IF s = <<>> THEN 0 ELSE s[1] * s[1] + SumSq(Tail(s))

Min(s) == CHOOSE x \in {s[i] : i \in 1..Len(s)} :
            \A j \in 1..Len(s) : x <= s[j]

Max(s) == CHOOSE x \in {s[i] : i \in 1..Len(s)} :
            \A j \in 1..Len(s) : x >= s[j]

(* x in list *)
In(x, s) == \E i \in 1..Len(s) : s[i] = x

(* dict: k in d, d.get(k, default), d[k] = v *)
DictHas(d, k) == \E i \in 1..Len(d) : d[i].k = k

DictGet(d, k, default) ==
  IF DictHas(d, k) THEN d[CHOOSE i \in 1..Len(d) : d[i].k = k].v ELSE default

DictSet(d, k, v) ==
  IF DictHas(d, k)
  THEN [i \in 1..Len(d) |-> IF d[i].k = k THEN [k |-> k, v |-> v] ELSE d[i]]
  ELSE Append(d, [k |-> k, v |-> v])

DictValues(d) == [i \in 1..Len(d) |-> d[i].v]

(* str.split(sep) with a one-character separator *)
RECURSIVE Split(_, _)
Split(s, c) ==
  IF \A i \in 1..Len(s) : s[i] # c
  THEN <<s>>
  ELSE LET p == CHOOSE i \in 1..Len(s) :
                  s[i] = c /\ \A j \in 1..(i - 1) : s[j] # c
       IN <<SubSeq(s, 1, p - 1)>> \o Split(SubSeq(s, p + 1, Len(s)), c)

(* str.rstrip() *)
RECURSIVE RStrip(_)
RStrip(s) ==
  IF s = <<>> \/ s[Len(s)] \notin Whitespace
  THEN s
  ELSE RStrip(SubSeq(s, 1, Len(s) - 1))

(* sep.join(fields) *)
RECURSIVE Join(_, _)
Join(fs, c) ==
  IF Len(fs) = 1 THEN fs[1] ELSE fs[1] \o <<c>> \o Join(Tail(fs), c)

----------------------------------------------------------------------------
(* The sources a TransactionalDatabase is constructed from *)

(* the lines of a text file as iteration over the file yields them: the
   separator-joined fields followed by the line terminator *)
FileLines(c) == {Join(fs, c) \o <<"NL">> : fs \in SeqsFromTo(Fields, 1, MaxFields)}

StrInput(exists, lines) ==
  [kind |-> "str", exists |-> exists, lines |-> lines,
   columns |-> {}, rows |-> [tid |-> <<>>, data |-> <<>>]]

Transactions == SeqsUpTo(Items, MaxTxnLen)

(* a DataFrame: its column names, the tid column and the first column after
   tid, one value per row *)
DataFrameInput(columns, txns) ==
  [kind |-> "DataFrame", exists |-> TRUE, lines |-> <<>>,
   columns |-> columns,
   rows |-> [tid |-> [i \in 1..Len(txns) |-> i], data |-> txns]]

----------------------------------------------------------------------------
(* readDatabase *)

(* temp = [i.rstrip() for i in line.split(self.sep)] *)
StripFields(line, c) ==
  LET fs == Split(line, c) IN [i \in 1..Len(fs) |-> RStrip(fs[i])]

(* temp = [x for x in temp if x] *)
NonEmpty(x) == x # <<>>

(* the empty fields dropped before the stripping instead of after it *)
ParseLine_FilterFirst(line, c) ==
  LET fs == SelectSeq(Split(line, c), NonEmpty)
  IN [i \in 1..Len(fs) |-> RStrip(fs[i])]

ParseLine(line, c) == SelectSeq(StripFields(line, c), NonEmpty)

(* the loop over the lines of the file, numberOfTransaction counting up *)
RECURSIVE ReadLines(_, _, _, _)
ReadLines(db, lines, numberOfTransaction, c) ==
  IF lines = <<>>
  THEN db
  ELSE ReadLines(DictSet(db, numberOfTransaction + 1, ParseLine(lines[1], c)),
                 Tail(lines), numberOfTransaction + 1, c)

HasColumns(columns) ==
  \/ "tid" \in columns /\ "Transactions" \in columns
  \/ "tid" \in columns /\ "Patterns" \in columns

(* inputFile.set_index('tid').T.to_dict(orient='records')[0]: the first row
   of the transposed frame, as a dict from the tid of a column to its value *)
RECURSIVE ToDict(_, _, _)
ToDict(d, tid, data) ==
  IF tid = <<>>
  THEN d
  ELSE ToDict(DictSet(d, tid[1], data[1]), Tail(tid), Tail(data))

ReadDataFrame(db, df) ==
  IF HasColumns(df.columns) THEN ToDict(<<>>, df.rows.tid, df.rows.data) ELSE db

(* DataFrame.empty: an axis of length 0 *)
IsEmpty(df) == df.columns = {} \/ df.rows.tid = <<>>

(* the lengths of the non-empty transactions only *)
LengthsOf_SkipEmpty(db) ==
  LET Positive(n) == n > 0
  IN SelectSeq([i \in 1..Len(db) |-> Len(db[i].v)], Positive)

(* self.lengthList = [len(s) for s in self.database.values()] *)
LengthsOf(db) == [i \in 1..Len(db) |-> Len(db[i].v)]

Result(op, exc, val) == [op |-> op, exc |-> exc, val |-> val]

run ==
  /\ pc # "quit"
  /\ IF inputFile.kind = "str" /\ ~inputFile.exists
     THEN /\ pc' = "quit"
          /\ stdout' = <<"File Not Found">>
          /\ ret' = Result("run", "SystemExit", "none")
          /\ UNCHANGED <<database, lengthList>>
     ELSE /\ database' = IF inputFile.kind = "DataFrame"
                         THEN ReadDataFrame(database, inputFile)
                         ELSE ReadLines(database, inputFile.lines, 0, sep)
          /\ lengthList' = LengthsOf(database')
          /\ pc' = "loaded"
          /\ stdout' = IF inputFile.kind = "DataFrame" /\ IsEmpty(inputFile)
                       THEN <<"its empty..">> ELSE <<>>
          /\ ret' = Result("run", "none", "none")
  /\ plotted' = <<>>
  /\ UNCHANGED <<inputFile, sep, itemFrequencies>>

----------------------------------------------------------------------------
(* The outcome of a call: the value returned, or the exception raised *)

Ok(val) == [exc |-> "none", val |-> val]

Raise(exc) == [exc |-> exc, val |-> "none"]

----------------------------------------------------------------------------
(* getSortedListOfItemFrequencies *)

(* for item in self.database[tid]: itemFrequencies[item] = get(item, 0) + 1 *)
RECURSIVE CountItems(_, _)
CountItems(freq, txn) ==
  IF txn = <<>>
  THEN freq
  ELSE CountItems(DictSet(freq, txn[1], DictGet(freq, txn[1], 0) + 1), Tail(txn))

(* an item counted once per transaction it occurs in *)
RECURSIVE CountDatabase_Distinct(_, _)
CountDatabase_Distinct(freq, db) ==
  IF db = <<>>
  THEN freq
  ELSE LET txn == db[1].v
           First(i) == \A j \in 1..(i - 1) : txn[j] # txn[i]
           firsts == {i \in 1..Len(txn) : First(i)}
           Nth(n) == CHOOSE i \in firsts :
                       Cardinality({j \in firsts : j < i}) = n - 1
       IN CountDatabase_Distinct(
            CountItems(freq, [n \in 1..Cardinality(firsts) |-> txn[Nth(n)]]),
            Tail(db))

(* for tid in self.database *)
RECURSIVE CountDatabase(_, _)
CountDatabase(freq, db) ==
  IF db = <<>>
  THEN freq
  ELSE CountDatabase(CountItems(freq, db[1].v), Tail(db))

(* sorted(..., key=lambda x: x[1], reverse=True): descending by count, equal
   counts keep their order *)
InsertByCount_Unstable(sorted, e) ==
  LET n == Cardinality({i \in 1..Len(sorted) : sorted[i].v > e.v})
  IN SubSeq(sorted, 1, n) \o <<e>> \o SubSeq(sorted, n + 1, Len(sorted))

InsertByCount(sorted, e) ==
  LET n == Cardinality({i \in 1..Len(sorted) : sorted[i].v >= e.v})
  IN SubSeq(sorted, 1, n) \o <<e>> \o SubSeq(sorted, n + 1, Len(sorted))

RECURSIVE SortedByCount(_, _)
SortedByCount(sorted, d) ==
  IF d = <<>>
  THEN sorted
  ELSE SortedByCount(InsertByCount(sorted, d[1]), Tail(d))

SortedListOfItemFrequencies(db) == SortedByCount(<<>>, CountDatabase(<<>>, db))

----------------------------------------------------------------------------
(* Length statistics *)

DatabaseSize(db) == Len(db)

NumberOfItems(db) == Len(SortedListOfItemFrequencies(db))

(* min(self.lengthList) *)
MinimumTransactionLength(ll) ==
  IF ll = <<>> THEN Raise("ValueError") ELSE Ok(Min(ll))

(* sum(self.lengthList) / len(self.database) *)
AverageTransactionLength(ll, db) ==
  IF Len(db) = 0 THEN Raise("ZeroDivisionError") ELSE Ok(<<Sum(ll), Len(db)>>)

(* max(self.lengthList) *)
MaximumTransactionLength(ll) ==
  IF ll = <<>> THEN Raise("ValueError") ELSE Ok(Max(ll))

(* sum of squared deviations from the mean, times n *)
NTimesSS(ll) == Len(ll) * SumSq(ll) - Sum(ll) * Sum(ll)

(* statistics.pstdev: needs one data point; sqrt(ss / n) *)
StandardDeviationTransactionLength(ll) ==
  IF Len(ll) < 1
  THEN Raise("StatisticsError")
  ELSE Ok([sqrt |-> <<NTimesSS(ll), Len(ll) * Len(ll)>>])

(* statistics.variance: needs two data points; ss / (n - 1) *)
VarianceTransactionLength(ll) ==
  IF Len(ll) < 2
  THEN Raise("StatisticsError")
  ELSE Ok(<<NTimesSS(ll), Len(ll) * (Len(ll) - 1)>>)

----------------------------------------------------------------------------
(* convertDataIntoMatrix, getSparsity, getDensity *)

(* the number of occurrences instead of the presence *)
Cell_Occurrences(item, txn) == Cardinality({i \in 1..Len(txn) : txn[i] = item})

Cell(item, txn) == IF In(item, txn) THEN 1 ELSE 0

(* for item in singleItems: itemsets[item].append(...) or itemsets[item] = [...] *)
RECURSIVE AppendColumn(_, _, _)
AppendColumn(itemsets, singleItems, txn) ==
  IF singleItems = <<>>
  THEN itemsets
  ELSE LET item == singleItems[1].k
       IN AppendColumn(
            DictSet(itemsets, item,
                    Append(DictGet(itemsets, item, <<>>), Cell(item, txn))),
            Tail(singleItems), txn)

(* for i in self.database; tids is what is left of the keys to visit *)
RECURSIVE FillMatrix(_, _, _, _)
FillMatrix(itemsets, singleItems, tids, db) ==
  IF tids = <<>>
  THEN itemsets
  ELSE FillMatrix(AppendColumn(itemsets, singleItems, DictGet(db, tids[1].k, <<>>)),
                  singleItems, Tail(tids), db)

(* np.array(list(itemsets.values())) *)
DataIntoMatrix(db) ==
  DictValues(FillMatrix(<<>>, SortedListOfItemFrequencies(db), db, db))

(* ndarray.size *)
Size(array) == Sum([i \in 1..Len(array) |-> Len(array[i])])

(* np.count_nonzero(big_array == 0) *)
CountZeros(array) ==
  Sum([i \in 1..Len(array) |->
         Cardinality({j \in 1..Len(array[i]) : array[i][j] = 0})])

(* np.count_nonzero(big_array != 0) *)
CountNonZeros(array) ==
  Sum([i \in 1..Len(array) |->
         Cardinality({j \in 1..Len(array[i]) : array[i][j] # 0})])

(* np.count_nonzero(big_array == 0) / big_array.size *)
Sparsity(db) ==
  LET big_array == DataIntoMatrix(db)
  IN IF Size(big_array) = 0
     THEN Raise("ZeroDivisionError")
     ELSE Ok(<<CountZeros(big_array), Size(big_array)>>)

(* np.count_nonzero(big_array != 0) / big_array.size *)
Density(db) ==
  LET big_array == DataIntoMatrix(db)
  IN IF Size(big_array) = 0
     THEN Raise("ZeroDivisionError")
     ELSE Ok(<<CountNonZeros(big_array), Size(big_array)>>)

----------------------------------------------------------------------------
(* getFrequenciesInRange *)

NumberOfBoundaries == 5

Divisor == 6

(* values = [int(i*maximum/6) for i in range(1,6)] *)
Boundaries(maximum) ==
  [i \in 1..NumberOfBoundaries |-> (i * maximum) \div Divisor]

(* len({key: val for key, val in fre.items() if val < hi and val > lo}) *)
CountBetween(fre, lo, hi) ==
  Cardinality({i \in 1..Len(fre) : fre[i].v < hi /\ fre[i].v > lo})

(* rangeFrequencies[va] = values[i], for i = 0 and then i in range(1, 5) *)
RECURSIVE FillRanges(_, _, _, _)
FillRanges(rangeFrequencies, fre, values, i) ==
  IF i > Len(values)
  THEN rangeFrequencies
  ELSE LET va == CountBetween(fre, IF i = 1 THEN 0 ELSE values[i - 1], values[i])
       IN FillRanges(DictSet(rangeFrequencies, va, values[i]), fre, values, i + 1)

FrequenciesInRange(db) ==
  LET fre == SortedListOfItemFrequencies(db)
  IN IF fre = <<>>
     THEN Raise("ValueError")
     ELSE Ok(FillRanges(<<>>, fre, Boundaries(Max(DictValues(fre))), 1))

----------------------------------------------------------------------------
(* getTransanctionalLengthDistribution *)

RECURSIVE CountLengths(_, _)
CountLengths(transactionLength, ll) ==
  IF ll = <<>>
  THEN transactionLength
  ELSE CountLengths(DictSet(transactionLength, ll[1],
                            DictGet(transactionLength, ll[1], 0) + 1), Tail(ll))

(* sorted(transactionLength.items(), key=lambda x: x[0]) *)
InsertByKey(sorted, e) ==
  LET n == Cardinality({i \in 1..Len(sorted) : sorted[i].k <= e.k})
  IN SubSeq(sorted, 1, n) \o <<e>> \o SubSeq(sorted, n + 1, Len(sorted))

RECURSIVE SortedByKey(_, _)
SortedByKey(sorted, d) ==
  IF d = <<>>
  THEN sorted
  ELSE SortedByKey(InsertByKey(sorted, d[1]), Tail(d))

TransanctionalLengthDistribution(ll) == SortedByKey(<<>>, CountLengths(<<>>, ll))

----------------------------------------------------------------------------
(* The methods, as calls on the object.  stdout and plotted hold what the
   call in progress printed and handed to plotLineGraphFromDictionary. *)

Return(op, r, cache, out, plots) ==
  /\ pc # "quit"
  /\ ret' = Result(op, r.exc, r.val)
  /\ itemFrequencies' = cache
  /\ stdout' = out
  /\ plotted' = plots
  /\ UNCHANGED <<inputFile, sep, database, lengthList, pc>>

getDatabaseSize ==
  Return("getDatabaseSize", Ok(DatabaseSize(database)), itemFrequencies, <<>>, <<>>)

getTotalNumberOfItems ==
  Return("getTotalNumberOfItems", Ok(NumberOfItems(database)),
         SortedListOfItemFrequencies(database), <<>>, <<>>)

getNumberOfItems ==
  Return("getNumberOfItems", Ok(NumberOfItems(database)),
         SortedListOfItemFrequencies(database), <<>>, <<>>)

getMinimumTransactionLength ==
  Return("getMinimumTransactionLength", MinimumTransactionLength(lengthList),
         itemFrequencies, <<>>, <<>>)

getAverageTransactionLength ==
  Return("getAverageTransactionLength",
         AverageTransactionLength(lengthList, database), itemFrequencies, <<>>, <<>>)

getMaximumTransactionLength ==
  Return("getMaximumTransactionLength", MaximumTransactionLength(lengthList),
         itemFrequencies, <<>>, <<>>)

getStandardDeviationTransactionLength ==
  Return("getStandardDeviationTransactionLength",
         StandardDeviationTransactionLength(lengthList), itemFrequencies, <<>>, <<>>)

getVarianceTransactionLength ==
  Return("getVarianceTransactionLength", VarianceTransactionLength(lengthList),
         itemFrequencies, <<>>, <<>>)

convertDataIntoMatrix ==
  Return("convertDataIntoMatrix", Ok(DataIntoMatrix(database)),
         SortedListOfItemFrequencies(database), <<>>, <<>>)

getSparsity ==
  Return("getSparsity", Sparsity(database),
         SortedListOfItemFrequencies(database), <<>>, <<>>)

getDensity ==
  Return("getDensity", Density(database),
         SortedListOfItemFrequencies(database), <<>>, <<>>)

getSortedListOfItemFrequencies ==
  Return("getSortedListOfItemFrequencies",
         Ok(SortedListOfItemFrequencies(database)),
         SortedListOfItemFrequencies(database), <<>>, <<>>)

getFrequenciesInRange ==
  Return("getFrequenciesInRange", FrequenciesInRange(database),
         SortedListOfItemFrequencies(database), <<>>, <<>>)

getTransanctionalLengthDistribution ==
  Return("getTransanctionalLengthDistribution",
         Ok(TransanctionalLengthDistribution(lengthList)), itemFrequencies, <<>>, <<>>)

----------------------------------------------------------------------------
(* printStats *)

Labels ==
  <<"Database size (total no of transactions) : ",
    "Number of items : ",
    "Minimum Transaction Size : ",
    "Average Transaction Size : ",
    "Maximum Transaction Size : ",
    "Standard Deviation Transaction Size : ",
    "Variance in Transaction Sizes : ",
    "Sparsity : ">>

(* the values the eight f-strings evaluate, in the order of the prints *)
Stats(db, ll) ==
  <<Ok(DatabaseSize(db)),
    Ok(NumberOfItems(db)),
    MinimumTransactionLength(ll),
    AverageTransactionLength(ll, db),
    MaximumTransactionLength(ll),
    StandardDeviationTransactionLength(ll),
    VarianceTransactionLength(ll),
    Sparsity(db)>>

(* the lines printed before the first getter that raises *)
Printed(stats) ==
  LET failed == {i \in 1..Len(stats) : stats[i].exc # "none"}
      n == IF failed = {}
           THEN Len(stats)
           ELSE (CHOOSE i \in failed : \A j \in failed : i <= j) - 1
  IN [i \in 1..n |-> <<Labels[i], stats[i].val>>]

Outcome(stats) ==
  LET failed == {i \in 1..Len(stats) : stats[i].exc # "none"}
  IN IF failed = {}
     THEN Ok("None")
     ELSE Raise(stats[CHOOSE i \in failed : \A j \in failed : i <= j].exc)

printStats ==
  LET stats == Stats(database, lengthList)
  IN Return("printStats", Outcome(stats),
            SortedListOfItemFrequencies(database), Printed(stats), <<>>)

----------------------------------------------------------------------------
(* plotGraphs *)

(* the dictionaries passed to plt.plotLineGraphFromDictionary, in call order *)
PlotArguments(cached, ll) == <<cached, TransanctionalLengthDistribution(ll)>>

plotGraphs ==
  Return("plotGraphs", Ok("None"), itemFrequencies, <<>>,
         PlotArguments(itemFrequencies, lengthList))

----------------------------------------------------------------------------

Init ==
  /\ sep \in Seps
  /\ inputFile \in
       {StrInput(TRUE, ls) : ls \in SeqsUpTo(FileLines(sep), MaxLines)}
       \cup {StrInput(FALSE, <<>>)}
       \cup {DataFrameInput(cs, ts) : cs \in ColumnSets,
                                      ts \in SeqsUpTo(Transactions, MaxRows)}
  /\ database = <<>>
  /\ lengthList = <<>>
  /\ itemFrequencies = <<>>
  /\ pc = "created"
  /\ ret = Result("__init__", "none", "none")
  /\ stdout = <<>>
  /\ plotted = <<>>

Next ==
  \/ run
  \/ getDatabaseSize
  \/ getTotalNumberOfItems
  \/ getNumberOfItems
  \/ getMinimumTransactionLength
  \/ getAverageTransactionLength
  \/ getMaximumTransactionLength
  \/ getStandardDeviationTransactionLength
  \/ getVarianceTransactionLength
  \/ convertDataIntoMatrix
  \/ getSparsity
  \/ getDensity
  \/ getSortedListOfItemFrequencies
  \/ getFrequenciesInRange
  \/ getTransanctionalLengthDistribution
  \/ printStats
  \/ plotGraphs

Spec == Init /\ [][Next]_vars

----------------------------------------------------------------------------
(* Properties *)

Loaded == pc = "loaded"

NeedsData ==
  {"getMinimumTransactionLength", "getMaximumTransactionLength",
   "getAverageTransactionLength", "getStandardDeviationTransactionLength",
   "getVarianceTransactionLength", "getSparsity"}

(* C1: on a loaded store with zero transactions, minLength, maxLength,
   averageLength, stddevLength, varianceLength and sparsity each end in an
   explicit Empty-database error, not in a failure of the underlying min/max,
   division or statistics routine. *)
C1_EmptyDatabaseError ==
  (Loaded /\ Len(database) = 0 /\ ret.op \in NeedsData)
    => ret.exc = "EmptyDatabaseError"

(* C2: loading a DataFrame without the required columns ('tid' with
   'Transactions' or 'Patterns') ends in an explicit Malformed-table error and
   never completes normally. *)
C2_MalformedTableError ==
  (/\ ret.op = "run"
   /\ inputFile.kind = "DataFrame"
   /\ ~("tid" \in inputFile.columns
         /\ inputFile.columns \cap {"Transactions", "Patterns"} # {}))
    => (ret.exc = "MalformedTableError" /\ ~Loaded)

(* the fields of a line, by the positions of its separators: field j is made
   of the characters that have j - 1 separators before them *)
FieldOf(line, c, p) == 1 + Cardinality({i \in 1..(p - 1) : line[i] = c})

NumberOfFields(line, c) == 1 + Cardinality({i \in 1..Len(line) : line[i] = c})

(* field j without its trailing whitespace *)
StrippedField(line, c, j) ==
  LET ps == {p \in 1..Len(line) : line[p] # c /\ FieldOf(line, c, p) = j}
      kept == {p \in ps : \E q \in ps : q >= p /\ line[q] \notin Whitespace}
  IN IF kept = {}
     THEN <<>>
     ELSE SubSeq(line, CHOOSE p \in kept : \A q \in kept : p <= q,
                       CHOOSE p \in kept : \A q \in kept : p >= q)

ExpectedTransaction(line, c) ==
  LET IsToken(x) == Len(x) > 0
  IN SelectSeq([j \in 1..NumberOfFields(line, c) |-> StrippedField(line, c, j)],
               IsToken)

(* C3: after a load from a local text file of n lines the keys are 1..n in
   read order, entry k holds the non-empty fields of line k (trailing
   whitespace stripped) in their order, no item is the empty string, and a
   line whose fields are all empty still yields an entry of length 0. *)
C3_LocalTextLoad ==
  (Loaded /\ inputFile.kind = "str")
    => /\ Len(database) = Len(inputFile.lines)
       /\ \A k \in 1..Len(database) :
            /\ database[k].k = k
            /\ database[k].v = ExpectedTransaction(inputFile.lines[k], sep)
            /\ \A i \in 1..Len(database[k].v) : database[k].v[i] # <<>>

C3_Witness ==
  /\ Loaded /\ inputFile.kind = "str" /\ ret.op = "run"
  /\ Len(database) = 2
  /\ Len(database[1].v) = 2 /\ database[1].v[1] # database[1].v[2]
  /\ NumberOfFields(inputFile.lines[2], sep) = 2 /\ database[2].v = <<>>

StoreInLockstep ==
  Loaded => /\ Len(lengthList) = Len(database)
            /\ \A i \in 1..Len(database) : lengthList[i] = Len(database[i].v)

QueryKeepsStore ==
  (Loaded /\ ret'.op # "run") => (database' = database /\ lengthList' = lengthList)

(* C4: after the load, and after any sequence of queries, the Length List has
   one entry per transaction, in store order, equal to that transaction's
   number of items, and the queries leave the store unchanged. *)
C4_LengthListLockstep == []StoreInLockstep /\ [][QueryKeepsStore]_vars

C4_Witness ==
  /\ Loaded /\ ret.op = "printStats"
  /\ Len(database) = 2
  /\ lengthList[1] = 0 /\ lengthList[2] = 2

(* where an item is first met when the transactions are scanned in store
   order: <<transaction, position>> *)
FirstSeen(item) ==
  LET t == CHOOSE i \in 1..Len(database) :
             /\ In(item, database[i].v)
             /\ \A j \in 1..(i - 1) : ~In(item, database[j].v)
      q == CHOOSE i \in 1..Len(database[t].v) :
             /\ database[t].v[i] = item
             /\ \A j \in 1..(i - 1) : database[t].v[j] # item
  IN <<t, q>>

Before(x, y) == x[1] < y[1] \/ (x[1] = y[1] /\ x[2] < y[2])

(* C5: itemFrequencies() is non-increasing in count, and items of equal count
   appear in the order in which they were first met. *)
C5_SortedStable ==
  (Loaded /\ ret.op = "getSortedListOfItemFrequencies")
    => \A i, j \in 1..Len(ret.val) :
         i < j => /\ ret.val[i].v >= ret.val[j].v
                  /\ ret.val[i].v = ret.val[j].v
                       => Before(FirstSeen(ret.val[i].k), FirstSeen(ret.val[j].k))

C5_Witness ==
  /\ Loaded /\ ret.op = "getSortedListOfItemFrequencies"
  /\ Len(ret.val) = 2
  /\ ret.val[1].v = 2 /\ ret.val[2].v = 2

(* C6: the counts of itemFrequencies() add up to the sum of the Length List,
   an item repeated inside a transaction being counted each time. *)
C6_CountsSumToLengths ==
  (Loaded /\ ret.op = "getSortedListOfItemFrequencies")
    => Sum(DictValues(ret.val)) = Sum(lengthList)

C6_Witness ==
  /\ Loaded /\ ret.op = "getSortedListOfItemFrequencies"
  /\ \E t \in 1..Len(database) :
       Len(database[t].v) = 2 /\ database[t].v[1] = database[t].v[2]
  /\ Sum(lengthList) >= 3

DistinctItems ==
  UNION {{database[t].v[i] : i \in 1..Len(database[t].v)} : t \in 1..Len(database)}

(* C7: for a store with a transaction and an item the presence matrix has
   distinctItemCount x transactionCount cells, each 0 or 1, and the zero cells
   of sparsity() and the non-zero cells of density() add up to all cells, so
   that sparsity() + density() = 1. *)
C7_SparsityPlusDensity ==
  (Loaded /\ ret.op = "getSparsity" /\ Len(database) >= 1 /\ DistinctItems # {})
    => LET matrix == DataIntoMatrix(database)
           cells == Cardinality(DistinctItems) * Len(database)
           density == Density(database)
       IN /\ Len(matrix) = Cardinality(DistinctItems)
          /\ \A r \in 1..Len(matrix) :
               /\ Len(matrix[r]) = Len(database)
               /\ \A t \in 1..Len(matrix[r]) : matrix[r][t] \in {0, 1}
          /\ ret.exc = "none" /\ density.exc = "none"
          /\ ret.val[2] = cells /\ density.val[2] = cells
          /\ ret.val[1] + density.val[1] = cells

C7_Witness ==
  /\ Loaded /\ ret.op = "getSparsity" /\ ret.exc = "none"
  /\ ret.val[1] > 0 /\ ret.val[1] < ret.val[2]
  /\ \E t \in 1..Len(database) :
       Len(database[t].v) = 2 /\ database[t].v[1] = database[t].v[2]

(* C8: with max the largest item frequency, frequencyRangeHistogram() has, for
   each of the 5 boundaries 1 + i*(max-1)/5 that cut [1, max] into 5 equal
   bins, an entry from the number of items whose frequency lies strictly
   between the previous boundary and this one to this boundary.  Boundaries
   are compared times 5. *)
C8_FiveEqualBins ==
  (Loaded /\ ret.op = "getFrequenciesInRange" /\ DistinctItems # {})
    => LET fre == SortedListOfItemFrequencies(database)
           max == Max(DictValues(fre))
           Boundary5(i) == 5 + i * (max - 1)
           InBin(i) == {n \in 1..Len(fre) :
                          5 * fre[n].v > Boundary5(i - 1) /\ 5 * fre[n].v < Boundary5(i)}
       IN /\ ret.exc = "none"
          /\ \A i \in 1..5 :
               \E e \in 1..Len(ret.val) :
                  /\ ret.val[e].k = Cardinality(InBin(i))
                  /\ 5 * ret.val[e].v = Boundary5(i)

(* C9: on any non-empty store, one of a single transaction included,
   printSummary() runs to completion and emits its eight labeled lines in the
   fixed order. *)
C9_PrintsEightLines ==
  (Loaded /\ ret.op = "printStats" /\ Len(database) >= 1)
    => /\ ret.exc = "none"
       /\ Len(stdout) = 8
       /\ \A i \in 1..Len(stdout) : stdout[i][1] = Labels[i]

(* C10: renderDistributions() calls the plotting collaborator exactly twice,
   first with itemFrequencies() of the current store, then with
   lengthDistribution() of the current store, also right after the load. *)
C10_PlotsCurrentFrequencies ==
  (Loaded /\ ret.op = "plotGraphs")
    => /\ Len(plotted) = 2
       /\ plotted[1] = SortedListOfItemFrequencies(database)
       /\ plotted[2] = TransanctionalLengthDistribution(lengthList)

====
